---- MODULE Spec2Model ----
(***************************************************************************)
(* Rat25F syntax analyser: the hand-built scanner (Lexer.cpp) feeding the  *)
(* predictive recursive-descent parser (parser.cpp), driven by run_one     *)
(* (main.cpp).  Characters are one-character strings; an input, a lexeme   *)
(* and a keyword spelling are sequences of characters.                     *)
(***************************************************************************)
EXTENDS Integers, Sequences, FiniteSets, TLC

VARIABLES
    input,     \* contents of the input file opened by run_one
    trace,     \* TraceConfig handed to the Parser
    policy,    \* ParserPolicy handed to the Parser
    lex,       \* Lexer: in (stream), pos (next unread), current, eof, line, col
    tok,       \* Parser::tok_, the lookahead
    stack,     \* the parser's pending calls, innermost first
    out,       \* the lines written to the output file, in order
    pc,        \* position in run_one / in the scanner driver
    err,       \* the ParseError in flight (<<>> when none)
    rc,        \* run_one's return code
    toks,      \* history: every token nextToken has returned, in order
    consumed,  \* history: every lookahead the parser has moved past, and how
    chosen,    \* history: every production a grammar procedure has chosen
    argc,      \* main's argc (0 when run_one or the scanner is taken on its own)
    jobs,      \* the input/output pairs main goes through: what is on disk for each
    argi,      \* main's loop index i: argv[i], argv[i+1] is the pair being processed
    exit,      \* main's rc, the exit status when main returns
    streams,   \* where std::cout and std::cerr write, and run_one's coutBuf, cerrBuf
    console,   \* the lines written to the process's own standard error
    files      \* history: for every pair processed, the output file it left

mainVars == <<argc, jobs, argi, exit, streams, console, files>>

vars == <<input, trace, policy, lex, tok, stack, out, pc, err, rc, toks, consumed, chosen,
          argc, jobs, argi, exit, streams, console, files>>

\* std::cout and std::cerr as the process starts, and as run_one redirects them
Standard == [cout |-> "stdout", cerr |-> "stderr", coutBuf |-> "", cerrBuf |-> ""]
Redirected == [cout |-> "file", cerr |-> "file", coutBuf |-> "stdout", cerrBuf |-> "stderr"]

\* main is not part of the run
NoMain == /\ argc = 0 /\ jobs = <<>> /\ argi = 0 /\ exit = 0 /\ console = <<>> /\ files = <<>>

----------------------------------------------------------------------------
(* Characters *)

NUL == "NUL"          \* '\0'
EOFCH == "EOF"        \* static_cast<char>(EOF), what peek() yields at end of stream

Upper == {"A","B","C","D","E","F","G","H","I","J","K","L","M",
          "N","O","P","Q","R","S","T","U","V","W","X","Y","Z"}
Lower == {"a","b","c","d","e","f","g","h","i","j","k","l","m",
          "n","o","p","q","r","s","t","u","v","w","x","y","z"}
Digits == {"0","1","2","3","4","5","6","7","8","9"}
VT == "VT"            \* '\v'
Spaces == {" ", "\t", "\n", "\r", "\f", VT}

isLetter(c) == c \in Upper \/ c \in Lower
isdigit(c) == c \in Digits
isspace(c) == c \in Spaces
isIdentRest(c) == isLetter(c) \/ isdigit(c) \/ c = "$" \/ c = "_"

tolower(c) ==
    CASE c = "A" -> "a" [] c = "B" -> "b" [] c = "C" -> "c" [] c = "D" -> "d"
      [] c = "E" -> "e" [] c = "F" -> "f" [] c = "G" -> "g" [] c = "H" -> "h"
      [] c = "I" -> "i" [] c = "J" -> "j" [] c = "K" -> "k" [] c = "L" -> "l"
      [] c = "M" -> "m" [] c = "N" -> "n" [] c = "O" -> "o" [] c = "P" -> "p"
      [] c = "Q" -> "q" [] c = "R" -> "r" [] c = "S" -> "s" [] c = "T" -> "t"
      [] c = "U" -> "u" [] c = "V" -> "v" [] c = "W" -> "w" [] c = "X" -> "x"
      [] c = "Y" -> "y" [] c = "Z" -> "z" [] OTHER -> c

(* Spellings the scanner and the parser compare lexemes with *)
kw_integer  == <<"i","n","t","e","g","e","r">>
kw_int      == <<"i","n","t">>
kw_real     == <<"r","e","a","l">>
kw_boolean  == <<"b","o","o","l","e","a","n">>
kw_function == <<"f","u","n","c","t","i","o","n">>
kw_if       == <<"i","f">>
kw_else     == <<"e","l","s","e">>
kw_fi       == <<"f","i">>
kw_while    == <<"w","h","i","l","e">>
kw_return   == <<"r","e","t","u","r","n">>
kw_get      == <<"g","e","t">>
kw_put      == <<"p","u","t">>
kw_true     == <<"t","r","u","e">>
kw_false    == <<"f","a","l","s","e">>

----------------------------------------------------------------------------
(* Token.h *)

TokenType == {"Keyword", "Identifier", "Integer", "Real", "Operator",
              "Separator", "String", "Unknown", "EndOfFile"}

Token(type, lexeme, line, col) ==
    [type |-> type, lexeme |-> lexeme, line |-> line, col |-> col]

NoToken == Token("Keyword", <<>>, 0, 0)    \* Token tok_{} : value-initialised

----------------------------------------------------------------------------
(* Lexer.cpp.  A scanner state l is a record; every scanning function      *)
(* returns the token together with the scanner state it leaves behind.     *)

advance(l) ==
    IF l.pos > Len(l.in)
    THEN [l EXCEPT !.eof = TRUE, !.current = NUL]
    ELSE LET ch == l.in[l.pos]
         IN  [l EXCEPT !.pos = @ + 1,
                       !.current = ch,
                       !.line = IF ch = "\n" THEN @ + 1 ELSE @,
                       !.col = IF ch = "\n" THEN 0 ELSE @ + 1]

peek(l) == IF l.pos > Len(l.in) THEN EOFCH ELSE l.in[l.pos]

Lexer(in) ==
    advance([in |-> in, pos |-> 1, current |-> NUL, eof |-> FALSE,
             line |-> 1, col |-> 0])

RECURSIVE skipSpace(_)
skipSpace(l) ==
    IF ~l.eof /\ isspace(l.current) THEN skipSpace(advance(l)) ELSE l

Ret(type, lexeme, l) == [tok |-> Token(type, lexeme, l.line, l.col), lex |-> l]

\* while (!eof && current != '"') { lex.push_back(current); advance(); }
RECURSIVE scanStringLoop(_, _)
scanStringLoop(l, lexeme) ==
    IF ~l.eof /\ l.current # "\""
    THEN scanStringLoop(advance(l), Append(lexeme, l.current))
    ELSE [lex |-> l, lexeme |-> lexeme]

\* a literal with no closing quote given up as the Unknown token '"'
scanString_NeedsClosingQuote(l) ==
    LET r == scanStringLoop(advance(l), <<>>)
    IN  IF r.lex.eof THEN Ret("Unknown", <<l.current>>, advance(l))
        ELSE Ret("String", r.lexeme, advance(r.lex))

scanString(l) ==
    LET r == scanStringLoop(advance(l), <<>>)
        l2 == IF ~r.lex.eof THEN advance(r.lex) ELSE r.lex
    IN  Ret("String", r.lexeme, l2)

KeywordTable == {kw_integer, kw_int, kw_real, kw_if, kw_else, kw_fi,
                 kw_while, kw_return, kw_get, kw_put}

\* the table looked up with the spelling as written
isKeyword_CaseSensitive(s) == s \in KeywordTable

isKeyword(s) == [i \in 1..Len(s) |-> tolower(s[i])] \in KeywordTable

RECURSIVE scanIdentLoop(_, _)
scanIdentLoop(l, lexeme) ==
    IF ~l.eof /\ isIdentRest(l.current)
    THEN scanIdentLoop(advance(l), Append(lexeme, l.current))
    ELSE [lex |-> l, lexeme |-> lexeme]

scanIdentifierFSM(l) ==
    LET r == scanIdentLoop(advance(l), <<l.current>>)
    IN  IF isKeyword(r.lexeme) THEN Ret("Keyword", r.lexeme, r.lex)
        ELSE Ret("Identifier", r.lexeme, r.lex)

RECURSIVE scanDigits(_, _)
scanDigits(l, lexeme) ==
    IF ~l.eof /\ isdigit(l.current)
    THEN scanDigits(advance(l), Append(lexeme, l.current))
    ELSE [lex |-> l, lexeme |-> lexeme]

\* the '.' taken without looking at what follows it
scanNumberFSM_EatsDot(l) ==
    LET r == scanDigits(l, <<>>)
    IN  IF ~r.lex.eof /\ r.lex.current = "."
        THEN LET f == scanDigits(advance(r.lex), Append(r.lexeme, r.lex.current))
             IN  Ret("Real", f.lexeme, f.lex)
        ELSE Ret("Integer", r.lexeme, r.lex)

scanNumberFSM(l) ==
    LET r == scanDigits(l, <<>>)
    IN  IF ~r.lex.eof /\ r.lex.current = "." /\ isdigit(peek(r.lex))
        THEN LET f == scanDigits(advance(r.lex), Append(r.lexeme, r.lex.current))
             IN  Ret("Real", f.lexeme, f.lex)
        ELSE Ret("Integer", r.lexeme, r.lex)

scanRealStartingWithDot(l) ==
    LET f == scanDigits(advance(l), <<l.current>>)
    IN  Ret("Real", f.lexeme, f.lex)

isSeparator(c) == c \in {"(", ")", "{", "}", "[", "]", ",", ";"}
isOperatorStart(c) == c \in {"+", "-", "*", "/", "=", "<", ">", "!", "&", "|"}

scanOpOrSep(l) ==
    LET p == peek(l)
        c == l.current
    IN  IF \/ (c = "<" /\ p = "=") \/ (c = ">" /\ p = "=")
           \/ (c = "=" /\ p = "=") \/ (c = "!" /\ p = "=")
           \/ (c = "&" /\ p = "&") \/ (c = "|" /\ p = "|")
        THEN Ret("Operator", <<c, p>>, advance(advance(l)))
        ELSE IF isOperatorStart(c) /\ ~(c = "!" \/ c = "&" \/ c = "|")
        THEN Ret("Operator", <<c>>, advance(l))
        ELSE IF isSeparator(c)
        THEN Ret("Separator", <<c>>, advance(l))
        ELSE IF c = "!" \/ c = "&" \/ c = "|"
        THEN Ret("Operator", <<c>>, advance(l))
        ELSE Ret("Unknown", <<c>>, advance(l))

\* the dispatcher after skipSpace and the end-of-input test
dispatch(l) ==
    IF l.current = "\"" THEN scanString(l)
    ELSE IF l.current = "." /\ isdigit(peek(l)) THEN scanRealStartingWithDot(l)
    ELSE IF isLetter(l.current) THEN scanIdentifierFSM(l)
    ELSE IF isdigit(l.current) THEN scanNumberFSM(l)
    ELSE IF isSeparator(l.current) \/ isOperatorStart(l.current) THEN scanOpOrSep(l)
    ELSE Ret("Unknown", <<l.current>>, advance(l))

\* the end-of-input test left out
nextToken_NoEofTest(l) == dispatch(skipSpace(l))

nextToken(l) ==
    LET s == skipSpace(l)
    IN  IF s.eof THEN Ret("EndOfFile", <<>>, s) ELSE dispatch(s)

----------------------------------------------------------------------------
(* Inputs *)

MaxLen == 3       \* every string over ShortAlphabet up to this length is an input
MaxCalls == 6     \* nextToken calls made by the scanner driver

ShortAlphabet == {"x", "1", ".", "=", ";", ")", "}", "\"", "\n"}

RECURSIVE StringsOver(_, _)
StringsOver(A, n) ==
    IF n = 0 THEN {<<>>}
    ELSE LET S == StringsOver(A, n - 1)
         IN  S \cup {Append(s, c) : s \in {t \in S : Len(t) = n - 1}, c \in A}

ShortInputs == StringsOver(ShortAlphabet, MaxLen)

LexCorpus ==
    { <<"1","2","3",".">>,
      <<".","5">>,
      <<"1","2",".","5","0",".">>,
      <<"1",".",".","5"," ","x">>,
      <<"x"," ","=","=","1","\n"," ","\n">>,
      <<"I","F"," ","i","f","$","_","1">>,
      <<"\"","a"," ","b">>,
      <<"<","="," ","!"," ","&","&","#">> }

----------------------------------------------------------------------------
(* The scanner on its own: a driver that constructs a Lexer over an input  *)
(* and calls nextToken repeatedly, also after the input is exhausted.      *)

Idle == /\ trace = <<>> /\ policy = <<>> /\ tok = NoToken /\ stack = <<>>
        /\ out = <<>> /\ err = <<>> /\ rc = 0 /\ consumed = <<>> /\ chosen = <<>>
        /\ NoMain /\ streams = Standard

LexInit ==
    /\ input \in ShortInputs \cup LexCorpus
    /\ lex = <<>>
    /\ toks = <<>>
    /\ pc = "new"
    /\ Idle

LexerNew ==
    /\ pc = "new"
    /\ lex' = Lexer(input)
    /\ pc' = "scan"
    /\ UNCHANGED <<input, trace, policy, tok, stack, out, err, rc, toks, consumed, chosen, mainVars>>

CallNextToken ==
    /\ pc = "scan"
    /\ Len(toks) < MaxCalls
    /\ LET r == nextToken(lex)
       IN  /\ lex' = r.lex
           /\ toks' = Append(toks, r.tok)
    /\ UNCHANGED <<input, trace, policy, tok, stack, out, pc, err, rc, consumed, chosen, mainVars>>

LexNext == LexerNew \/ CallNextToken

LexSpec == LexInit /\ [][LexNext]_vars

----------------------------------------------------------------------------
(* parser.h: configuration *)

Rule == {"Rat25F", "OptFuncDefs", "FuncDefs", "FuncDefsPrime", "Function",
         "OptParamList", "ParamList", "ParamListPrime", "Parameter", "Qualifier",
         "Body", "OptDeclList", "DeclList", "DeclListPrime", "Declaration", "IDs",
         "IDsPrime", "StatementList", "StatementListPrime", "Statement", "Compound",
         "Assign", "If", "OptElse", "Return", "Print", "Scan", "While",
         "Condition", "Relop", "Expression", "ExpressionPrime", "Term", "TermPrime",
         "Factor", "Primary", "PrimaryPrime"}

\* TraceConfig{} : the member initialisers
DefaultEnabled == {"Statement", "Assign", "If", "Return", "Print", "Scan", "While"}

TraceConfig ==
    [master |-> TRUE, hideEpsilon |-> TRUE, hideOpt |-> TRUE,
     hideScaffolding |-> TRUE, enabled |-> DefaultEnabled]

\* ParserPolicy{} : the member initialisers
ParserPolicy ==
    [echoTokens |-> TRUE, lenientKeywords |-> TRUE, allowStringPrimary |-> TRUE]

\* main clearing the allow-set as well
MainTrace_AllRules ==
    [master |-> TRUE, hideEpsilon |-> FALSE, hideOpt |-> TRUE,
     hideScaffolding |-> TRUE, enabled |-> {}]

\* main: the knobs it sets before calling run_one
MainTrace ==
    [TraceConfig EXCEPT !.master = TRUE, !.hideEpsilon = FALSE,
                        !.hideOpt = TRUE, !.hideScaffolding = TRUE]

MainPolicy ==
    [ParserPolicy EXCEPT !.echoTokens = TRUE, !.lenientKeywords = TRUE,
                         !.allowStringPrimary = TRUE]

----------------------------------------------------------------------------
(* Output lines.  A production text is the sequence of its space-separated *)
(* words; EPS is the word written as the Greek letter epsilon.             *)

EPS == "eps"

ProdLine(text) == [kind |-> "prod", text |-> text, lexeme |-> <<>>, line |-> 0, col |-> 0]
TokenLine(k, lexeme) == [kind |-> "token", text |-> <<k>>, lexeme |-> lexeme, line |-> 0, col |-> 0]
ErrorLine(e) == [kind |-> "error", text |-> e.msg, lexeme |-> e.near, line |-> e.line, col |-> e.col]
SuccessLine == [kind |-> "success", text |-> <<"Parsing finished successfully.">>,
                lexeme |-> <<>>, line |-> 0, col |-> 0]

prettyTokenKind(t) == IF t = "EndOfFile" THEN "EOF" ELSE t

\* contains(s, sub) on word sequences, for the four markers prod looks for
contains(text, sub) ==
    CASE sub = EPS -> \E i \in 1..Len(text) : text[i] = EPS
      [] sub = "Opt " -> \E i \in 1..(Len(text) - 1) : text[i] = "<Opt"
      [] sub = "Rat25F" -> \E i \in 1..Len(text) : text[i] = "<Rat25F>"
      [] sub = "Statement List" ->
            \E i \in 1..(Len(text) - 1) :
                /\ text[i] \in {"<Statement", "Statement"}
                /\ text[i + 1] \in {"List>", "List"}

----------------------------------------------------------------------------
(* parser.cpp: helpers *)

isKw(s) ==
    IF ~policy.lenientKeywords
    THEN tok.type = "Keyword" /\ tok.lexeme = s
    ELSE IF tok.type = "Keyword" \/ tok.type = "Identifier"
    THEN tok.lexeme = s
    ELSE FALSE

isOp(s) == tok.type = "Operator" /\ tok.lexeme = s
isSep(s) == tok.type = "Separator" /\ tok.lexeme = s

\* line and column exchanged
errorHere_Swapped(msg) ==
    [msg |-> msg, line |-> tok.col, col |-> tok.line, near |-> tok.lexeme]

\* the ParseError errorHere throws
errorHere(msg) ==
    [msg |-> msg, line |-> tok.line, col |-> tok.col, near |-> tok.lexeme]

\* a String lexeme written between the quotes it stood in
echoToken_Quoted ==
    IF ~policy.echoTokens THEN <<>>
    ELSE IF tok.type = "EndOfFile" THEN <<>>
    ELSE IF tok.type = "String"
    THEN <<TokenLine(prettyTokenKind(tok.type), <<"\"">> \o tok.lexeme \o <<"\"">>)>>
    ELSE <<TokenLine(prettyTokenKind(tok.type), tok.lexeme)>>

echoToken ==
    IF ~policy.echoTokens THEN <<>>
    ELSE IF tok.type = "EndOfFile" THEN <<>>
    ELSE <<TokenLine(prettyTokenKind(tok.type), tok.lexeme)>>

\* the lines prod(r, text) hands to the sink
prod(r, text) ==
    IF ~trace.master THEN <<>>
    ELSE IF trace.enabled # {} /\ r \notin trace.enabled THEN <<>>
    ELSE IF trace.hideEpsilon /\ contains(text, EPS) THEN <<>>
    ELSE IF trace.hideOpt /\ contains(text, "Opt ") THEN <<>>
    ELSE IF trace.hideScaffolding
            /\ (contains(text, "Rat25F") \/ contains(text, "Statement List")) THEN <<>>
    ELSE <<ProdLine(text)>>

(* What one step of a procedure does: the production it chose, the lines   *)
(* it wrote, the calls it still has to make (push), whether it moved the   *)
(* lookahead on (adv) and how (eat), or the error it threw.                *)

P(name) == [k |-> name, s |-> <<>>]
X(name, s) == [k |-> name, s |-> s]

Step(ch, emit, push, adv, eat, e) ==
    [chosen |-> ch, emit |-> emit, push |-> push, adv |-> adv, eat |-> eat, err |-> e]

\* the production a procedure chose, and the lookahead it chose it on
Chose(r, text) == <<[rule |-> r, text |-> text, on |-> tok]>>

\* prod(r, text); then the calls in push
Go(r, text, push) ==
    Step(Chose(r, text), prod(r, text), push, FALSE, "", <<>>)

\* prod(r, text); echoToken(); advance();
GoEat(r, text) ==
    Step(Chose(r, text), prod(r, text) \o echoToken, <<>>, TRUE, "echo", <<>>)

\* advance() without the echo
Eat_NoEcho == Step(<<>>, <<>>, <<>>, TRUE, "echo", <<>>)

\* echoToken(); advance();
Eat == Step(<<>>, echoToken, <<>>, TRUE, "echo", <<>>)

\* one iteration of skipBannerStrings' loop: advance() with no echo, then `again`
Drop(again) == Step(<<>>, <<>>, again, TRUE, "banner", <<>>)

ReturnNow == Step(<<>>, <<>>, <<>>, FALSE, "", <<>>)

\* the error is written out and the parse goes on
Throw_AndGoOn(msg) ==
    Step(<<>>, <<ErrorLine(errorHere(msg))>>, <<>>, FALSE, "", <<>>)

Throw(msg) == Step(<<>>, <<>>, <<>>, FALSE, "", <<errorHere(msg)>>)

expectIdentifier ==
    IF tok.type # "Identifier" THEN Throw(<<"identifier expected">>) ELSE Eat

expectKw(s) ==
    IF ~isKw(s) THEN Throw(<<"'">> \o s \o <<"' expected">>) ELSE Eat

expectOp(s) ==
    IF ~isOp(s) THEN Throw(<<"operator '">> \o s \o <<"' expected">>) ELSE Eat

expectSep(s) ==
    IF ~isSep(s) THEN Throw(<<"separator '">> \o s \o <<"' expected">>) ELSE Eat

\* skipDocStrings' loop in its place: echoToken(); advance();
skipBannerStrings_Echoing(self) ==
    IF tok.type = "String" THEN Step(<<>>, echoToken, <<self>>, TRUE, "banner", <<>>)
    ELSE ReturnNow

skipBannerStrings(self) ==
    IF tok.type = "String" THEN Drop(<<self>>) ELSE ReturnNow

----------------------------------------------------------------------------
(* parser.cpp: the grammar procedures *)

parseRat25F ==
    Go("Rat25F", <<"<Rat25F>", "->", "<Opt", "Function", "Definitions>", "<Opt", "Declaration", "List>", "<Statement", "List>">>,
       <<P("skipBannerStrings"), P("parseOptFunctionDefinitions"),
         P("skipBannerStrings"), P("parseOptDeclarationList"),
         P("skipBannerStrings"), P("parseStatementList")>>)

parseOptFunctionDefinitions ==
    IF tok.type = "String" THEN skipBannerStrings(P("parseOptFunctionDefinitions"))
    ELSE IF isKw(kw_function)
    THEN Go("OptFuncDefs", <<"<Opt", "Function", "Definitions>", "->", "<Function", "Definitions>">>,
            <<P("parseFunctionDefinitions")>>)
    ELSE Go("OptFuncDefs", <<"<Opt", "Function", "Definitions>", "->", EPS>>, <<>>)

parseFunctionDefinitions ==
    Go("FuncDefs", <<"<Function", "Definitions>", "->", "<Function>", "<Function", "Definitions", "Prime>">>,
       <<P("parseFunction"), P("parseFunctionDefinitionsPrime")>>)

parseFunctionDefinitionsPrime ==
    IF tok.type = "String" THEN skipBannerStrings(P("parseFunctionDefinitionsPrime"))
    ELSE IF isKw(kw_function)
    THEN Go("FuncDefsPrime", <<"<Function", "Definitions", "Prime>", "->", "<Function>", "<Function", "Definitions", "Prime>">>,
            <<P("parseFunction"), P("parseFunctionDefinitionsPrime")>>)
    ELSE Go("FuncDefsPrime", <<"<Function", "Definitions", "Prime>", "->", EPS>>, <<>>)

parseFunction ==
    Go("Function", <<"<Function>", "->", "function", "<Identifier>", "(", "<Opt", "Parameter", "List>", ")", "<Opt", "Declaration", "List>", "<Body>">>,
       <<X("expectKw", kw_function), P("expectIdentifier"), X("expectSep", <<"(">>),
         P("parseOptParameterList"), X("expectSep", <<")">>),
         P("parseOptDeclarationList"), P("parseBody")>>)

parseOptParameterList ==
    IF tok.type = "Identifier"
    THEN Go("OptParamList", <<"<Opt", "Parameter", "List>", "->", "<Parameter", "List>">>,
            <<P("parseParameterList")>>)
    ELSE Go("OptParamList", <<"<Opt", "Parameter", "List>", "->", EPS>>, <<>>)

parseParameterList ==
    Go("ParamList", <<"<Parameter", "List>", "->", "<Parameter>", "<Parameter", "List", "Prime>">>,
       <<P("parseParameter"), P("parseParameterListPrime")>>)

parseParameterListPrime ==
    IF isSep(<<",">>)
    THEN Go("ParamListPrime", <<"<Parameter", "List", "Prime>", "->", ",", "<Parameter>", "<Parameter", "List", "Prime>">>,
            <<X("expectSep", <<",">>), P("parseParameter"), P("parseParameterListPrime")>>)
    ELSE Go("ParamListPrime", <<"<Parameter", "List", "Prime>", "->", EPS>>, <<>>)

parseParameter ==
    Go("Parameter", <<"<Parameter>", "->", "<IDs>", "<Qualifier>">>,
       <<P("parseIDs"), P("parseQualifier")>>)

parseQualifier ==
    IF isKw(kw_integer) \/ isKw(kw_boolean) \/ isKw(kw_real)
    THEN GoEat("Qualifier", <<"<Qualifier>", "->", "integer", "|", "boolean", "|", "real">>)
    ELSE Throw(<<"qualifier (integer|boolean|real) expected">>)

parseBody ==
    Go("Body", <<"<Body>", "->", "{", "<Opt", "Statement", "List>", "}">>,
       <<X("expectSep", <<"{">>), P("parseOptStatementList"), X("expectSep", <<"}">>)>>)

parseOptDeclarationList ==
    IF isKw(kw_integer) \/ isKw(kw_boolean) \/ isKw(kw_real)
    THEN Go("OptDeclList", <<"<Opt", "Declaration", "List>", "->", "<Declaration", "List>">>,
            <<P("parseDeclarationList")>>)
    ELSE Go("OptDeclList", <<"<Opt", "Declaration", "List>", "->", EPS>>, <<>>)

parseDeclarationList ==
    Go("DeclList", <<"<Declaration", "List>", "->", "<Declaration>", ";", "<Declaration", "List", "Prime>">>,
       <<P("parseDeclaration"), X("expectSep", <<";">>), P("parseDeclarationListPrime")>>)

parseDeclarationListPrime ==
    IF isKw(kw_integer) \/ isKw(kw_boolean) \/ isKw(kw_real)
    THEN Go("DeclListPrime", <<"<Declaration", "List", "Prime>", "->", "<Declaration>", ";", "<Declaration", "List", "Prime>">>,
            <<P("parseDeclaration"), X("expectSep", <<";">>), P("parseDeclarationListPrime")>>)
    ELSE Go("DeclListPrime", <<"<Declaration", "List", "Prime>", "->", EPS>>, <<>>)

parseDeclaration ==
    Go("Declaration", <<"<Declaration>", "->", "<Qualifier>", "<IDs>">>,
       <<P("parseQualifier"), P("parseIDs")>>)

parseIDs ==
    Go("IDs", <<"<IDs>", "->", "<Identifier>", "<IDs", "Prime>">>,
       <<P("expectIdentifier"), P("parseIDsPrime")>>)

parseIDsPrime ==
    IF isSep(<<",">>)
    THEN Go("IDsPrime", <<"<IDs", "Prime>", "->", ",", "<IDs>">>,
            <<X("expectSep", <<",">>), P("parseIDs")>>)
    ELSE Go("IDsPrime", <<"<IDs", "Prime>", "->", EPS>>, <<>>)

\* the first-set test of parseStatementList and parseStatementListPrime
canStartStatement ==
    \/ isSep(<<"{">>) \/ tok.type = "Identifier" \/ isKw(kw_if) \/ isKw(kw_return)
    \/ isKw(kw_put) \/ isKw(kw_get) \/ isKw(kw_while)

parseStatementList ==
    IF tok.type = "String" THEN skipBannerStrings(P("parseStatementList"))
    ELSE IF tok.type = "EndOfFile" \/ isSep(<<"}">>)
    THEN Go("StatementList", <<"<Statement", "List>", "->", EPS>>, <<>>)
    ELSE IF canStartStatement
    THEN Go("StatementList", <<"<Statement", "List>", "->", "<Statement>", "<Statement", "List", "Prime>">>,
            <<P("parseStatement"), P("parseStatementListPrime")>>)
    ELSE Go("StatementList", <<"<Statement", "List>", "->", EPS>>, <<>>)

parseStatementListPrime ==
    IF tok.type = "String" THEN skipBannerStrings(P("parseStatementListPrime"))
    ELSE IF tok.type = "EndOfFile" \/ isSep(<<"}">>)
    THEN Go("StatementListPrime", <<"<Statement", "List", "Prime>", "->", EPS>>, <<>>)
    ELSE IF canStartStatement
    THEN Go("StatementListPrime", <<"<Statement", "List", "Prime>", "->", "<Statement>", "<Statement", "List", "Prime>">>,
            <<P("parseStatement"), P("parseStatementListPrime")>>)
    ELSE Go("StatementListPrime", <<"<Statement", "List", "Prime>", "->", EPS>>, <<>>)

parseOptStatementList ==
    IF tok.type = "EndOfFile" \/ isSep(<<"}">>)
    THEN Go("StatementList", <<"<Statement", "List>", "->", EPS>>, <<>>)
    ELSE Step(<<>>, <<>>, <<P("parseStatementList")>>, FALSE, "", <<>>)

parseStatement ==
    IF tok.type = "String"
    THEN \* advance() with no echo, then prod(Rule::Statement, "<Statement> -> eps")
         Step(Chose("Statement", <<"<Statement>", "->", EPS>>),
              prod("Statement", <<"<Statement>", "->", EPS>>), <<>>, TRUE, "noop", <<>>)
    ELSE IF isSep(<<"{">>)
    THEN Go("Statement", <<"<Statement>", "->", "<Compound>">>, <<P("parseCompound")>>)
    ELSE IF tok.type = "Identifier"
    THEN Go("Statement", <<"<Statement>", "->", "<Assign>">>, <<P("parseAssign")>>)
    ELSE IF isKw(kw_if)
    THEN Go("Statement", <<"<Statement>", "->", "<If>">>, <<P("parseIf")>>)
    ELSE IF isKw(kw_return)
    THEN Go("Statement", <<"<Statement>", "->", "<Return>">>, <<P("parseReturn")>>)
    ELSE IF isKw(kw_put)
    THEN Go("Statement", <<"<Statement>", "->", "<Print>">>, <<P("parsePrint")>>)
    ELSE IF isKw(kw_get)
    THEN Go("Statement", <<"<Statement>", "->", "<Scan>">>, <<P("parseScan")>>)
    ELSE IF isKw(kw_while)
    THEN Go("Statement", <<"<Statement>", "->", "<While>">>, <<P("parseWhile")>>)
    ELSE Throw(<<"statement expected">>)

parseCompound ==
    Go("Compound", <<"<Compound>", "->", "{", "<Statement", "List>", "}">>,
       <<X("expectSep", <<"{">>), P("parseStatementList"), X("expectSep", <<"}">>)>>)

parseAssign ==
    Go("Assign", <<"<Assign>", "->", "<Identifier>", "=", "<Expression>", ";">>,
       <<P("expectIdentifier"), X("expectOp", <<"=">>), P("parseExpression"),
         X("expectSep", <<";">>)>>)

parseIf ==
    Go("If", <<"<If>", "->", "if", "(", "<Condition>", ")", "<Statement>", "<OptElse>", "fi">>,
       <<X("expectKw", kw_if), X("expectSep", <<"(">>), P("parseCondition"),
         X("expectSep", <<")">>), P("parseStatement"), P("parseOptElse"),
         X("expectKw", kw_fi)>>)

parseOptElse ==
    IF isKw(kw_else)
    THEN Go("OptElse", <<"<OptElse>", "->", "else", "<Statement>">>,
            <<X("expectKw", kw_else), P("parseStatement")>>)
    ELSE Go("OptElse", <<"<OptElse>", "->", EPS>>, <<>>)

parseReturn ==
    Go("Return", <<"<Return>", "->", "return", ";", "|", "return", "<Expression>", ";">>,
       <<X("expectKw", kw_return), P("parseReturn_rest")>>)

\* parseReturn after expectKw("return")
parseReturn_rest ==
    IF isSep(<<";">>)
    THEN Step(<<>>, <<>>, <<X("expectSep", <<";">>)>>, FALSE, "", <<>>)
    ELSE Step(<<>>, <<>>, <<P("parseExpression"), X("expectSep", <<";">>)>>, FALSE, "", <<>>)

parsePrint ==
    Go("Print", <<"<Print>", "->", "put", "(", "<Expression>", ")", ";">>,
       <<X("expectKw", kw_put), X("expectSep", <<"(">>), P("parseExpression"),
         X("expectSep", <<")">>), X("expectSep", <<";">>)>>)

parseScan ==
    Go("Scan", <<"<Scan>", "->", "get", "(", "<IDs>", ")", ";">>,
       <<X("expectKw", kw_get), X("expectSep", <<"(">>), P("parseIDs"),
         X("expectSep", <<")">>), X("expectSep", <<";">>)>>)

parseWhile ==
    Go("While", <<"<While>", "->", "while", "(", "<Condition>", ")", "<Statement>">>,
       <<X("expectKw", kw_while), X("expectSep", <<"(">>), P("parseCondition"),
         X("expectSep", <<")">>), P("parseStatement")>>)

parseCondition ==
    Go("Condition", <<"<Condition>", "->", "<Expression>", "<Relop>", "<Expression>">>,
       <<P("parseExpression"), P("parseRelop"), P("parseExpression")>>)

parseRelop ==
    IF \/ isOp(<<"=","=">>) \/ isOp(<<"!","=">>) \/ isOp(<<">">>) \/ isOp(<<"<">>)
       \/ isOp(<<"<","=">>) \/ isOp(<<">","=">>)
    THEN LET text == <<"<Relop>", "->">> \o tok.lexeme
         IN  Step(Chose("Relop", text),
                  (IF trace.master /\ "Relop" \in trace.enabled
                   THEN <<ProdLine(text)>> ELSE <<>>) \o echoToken,
                  <<>>, TRUE, "echo", <<>>)
    ELSE Throw(<<"relational operator expected">>)

parseExpression ==
    Go("Expression", <<"<Expression>", "->", "<Term>", "<Expression", "Prime>">>,
       <<P("parseTerm"), P("parseExpressionPrime")>>)

parseExpressionPrime ==
    IF isOp(<<"+">>)
    THEN Go("ExpressionPrime", <<"<Expression", "Prime>", "->", "+", "<Term>", "<Expression", "Prime>">>,
            <<X("expectOp", <<"+">>), P("parseTerm"), P("parseExpressionPrime")>>)
    ELSE IF isOp(<<"-">>)
    THEN Go("ExpressionPrime", <<"<Expression", "Prime>", "->", "-", "<Term>", "<Expression", "Prime>">>,
            <<X("expectOp", <<"-">>), P("parseTerm"), P("parseExpressionPrime")>>)
    ELSE Go("ExpressionPrime", <<"<Expression", "Prime>", "->", EPS>>, <<>>)

parseTerm ==
    Go("Term", <<"<Term>", "->", "<Factor>", "<Term", "Prime>">>,
       <<P("parseFactor"), P("parseTermPrime")>>)

parseTermPrime ==
    IF isOp(<<"*">>)
    THEN Go("TermPrime", <<"<Term", "Prime>", "->", "*", "<Factor>", "<Term", "Prime>">>,
            <<X("expectOp", <<"*">>), P("parseFactor"), P("parseTermPrime")>>)
    ELSE IF isOp(<<"/">>)
    THEN Go("TermPrime", <<"<Term", "Prime>", "->", "/", "<Factor>", "<Term", "Prime>">>,
            <<X("expectOp", <<"/">>), P("parseFactor"), P("parseTermPrime")>>)
    ELSE Go("TermPrime", <<"<Term", "Prime>", "->", EPS>>, <<>>)

parseFactor ==
    IF isOp(<<"-">>)
    THEN Go("Factor", <<"<Factor>", "->", "-", "<Primary>">>,
            <<X("expectOp", <<"-">>), P("parsePrimary")>>)
    ELSE Go("Factor", <<"<Factor>", "->", "<Primary>">>, <<P("parsePrimary")>>)

parsePrimary ==
    IF tok.type = "Identifier"
    THEN Go("Primary", <<"<Primary>", "->", "<Identifier>", "<Primary", "Prime>">>,
            <<P("expectIdentifier"), P("parsePrimaryPrime")>>)
    ELSE IF tok.type = "Integer"
    THEN GoEat("Primary", <<"<Primary>", "->", "<Integer>">>)
    ELSE IF tok.type = "Real"
    THEN GoEat("Primary", <<"<Primary>", "->", "<Real>">>)
    ELSE IF isSep(<<"(">>)
    THEN Go("Primary", <<"<Primary>", "->", "(", "<Expression>", ")">>,
            <<X("expectSep", <<"(">>), P("parseExpression"), X("expectSep", <<")">>)>>)
    ELSE IF /\ (tok.lexeme = kw_true \/ tok.lexeme = kw_false)
            /\ (tok.type = "Identifier" \/ tok.type = "Keyword")
    THEN GoEat("Primary", <<"<Primary>", "->", "true", "|", "false">>)
    ELSE IF policy.allowStringPrimary /\ tok.type = "String"
    THEN GoEat("Primary", <<"<Primary>", "->", "<String>">>)
    ELSE Throw(<<"primary expected">>)

parsePrimaryPrime ==
    IF isSep(<<"(">>)
    THEN Go("PrimaryPrime", <<"<Primary", "Prime>", "->", "(", "<IDs>", ")">>,
            <<X("expectSep", <<"(">>), P("parseIDs"), X("expectSep", <<")">>)>>)
    ELSE Go("PrimaryPrime", <<"<Primary", "Prime>", "->", EPS>>, <<>>)

\* the body of the procedure a pending call names
Run(item) ==
    CASE item.k = "parseRat25F" -> parseRat25F
      [] item.k = "parseOptFunctionDefinitions" -> parseOptFunctionDefinitions
      [] item.k = "parseFunctionDefinitions" -> parseFunctionDefinitions
      [] item.k = "parseFunctionDefinitionsPrime" -> parseFunctionDefinitionsPrime
      [] item.k = "parseFunction" -> parseFunction
      [] item.k = "parseOptParameterList" -> parseOptParameterList
      [] item.k = "parseParameterList" -> parseParameterList
      [] item.k = "parseParameterListPrime" -> parseParameterListPrime
      [] item.k = "parseParameter" -> parseParameter
      [] item.k = "parseQualifier" -> parseQualifier
      [] item.k = "parseBody" -> parseBody
      [] item.k = "parseOptDeclarationList" -> parseOptDeclarationList
      [] item.k = "parseDeclarationList" -> parseDeclarationList
      [] item.k = "parseDeclarationListPrime" -> parseDeclarationListPrime
      [] item.k = "parseDeclaration" -> parseDeclaration
      [] item.k = "parseIDs" -> parseIDs
      [] item.k = "parseIDsPrime" -> parseIDsPrime
      [] item.k = "parseStatementList" -> parseStatementList
      [] item.k = "parseStatementListPrime" -> parseStatementListPrime
      [] item.k = "parseOptStatementList" -> parseOptStatementList
      [] item.k = "parseStatement" -> parseStatement
      [] item.k = "parseCompound" -> parseCompound
      [] item.k = "parseAssign" -> parseAssign
      [] item.k = "parseIf" -> parseIf
      [] item.k = "parseOptElse" -> parseOptElse
      [] item.k = "parseReturn" -> parseReturn
      [] item.k = "parseReturn_rest" -> parseReturn_rest
      [] item.k = "parsePrint" -> parsePrint
      [] item.k = "parseScan" -> parseScan
      [] item.k = "parseWhile" -> parseWhile
      [] item.k = "parseCondition" -> parseCondition
      [] item.k = "parseRelop" -> parseRelop
      [] item.k = "parseExpression" -> parseExpression
      [] item.k = "parseExpressionPrime" -> parseExpressionPrime
      [] item.k = "parseTerm" -> parseTerm
      [] item.k = "parseTermPrime" -> parseTermPrime
      [] item.k = "parseFactor" -> parseFactor
      [] item.k = "parsePrimary" -> parsePrimary
      [] item.k = "parsePrimaryPrime" -> parsePrimaryPrime
      [] item.k = "skipBannerStrings" -> skipBannerStrings(item)
      [] item.k = "expectIdentifier" -> expectIdentifier
      [] item.k = "expectKw" -> expectKw(item.s)
      [] item.k = "expectOp" -> expectOp(item.s)
      [] item.k = "expectSep" -> expectSep(item.s)

ExpectCalls == {"expectIdentifier", "expectKw", "expectOp", "expectSep"}

----------------------------------------------------------------------------
(* Input files and configurations of the pipeline *)

\* integer x; x = 3 + 4; put(x);
Prog_sum ==
    <<"i","n","t","e","g","e","r"," ","x",";"," ","x"," ","="," ","3"," ","+"," ","4",";"," ","p","u","t","(","x",")",";">>

\* integer x x = 1;
Prog_missing_semicolon ==
    <<"i","n","t","e","g","e","r"," ","x"," ","x"," ","="," ","1",";">>

\* function f(a, b integer, c real)\n boolean d;\n{ return a * (b - 1) / -c; }\nfunction g() { return; }\nx = f(a) + 2.5;
Prog_function ==
    <<"f","u","n","c","t","i","o","n"," ","f","(","a",","," ","b"," ","i","n","t","e","g","e","r",","," ","c"," ","r","e","a","l",")","\n"," ","b","o","o","l","e","a","n"," ","d",";","\n","{"," ","r","e","t","u","r","n"," ","a"," ","*"," ","(","b"," ","-"," ","1",")"," ","/"," ","-","c",";"," ","}","\n","f","u","n","c","t","i","o","n"," ","g","(",")"," ","{"," ","r","e","t","u","r","n",";"," ","}","\n","x"," ","="," ","f","(","a",")"," ","+"," ","2",".","5",";">>

\* while (x < 1) {\n if (x >= .5) get(x, y); else put(true); fi\n}
Prog_while ==
    <<"w","h","i","l","e"," ","(","x"," ","<"," ","1",")"," ","{","\n"," ","i","f"," ","(","x"," ",">","="," ",".","5",")"," ","g","e","t","(","x",","," ","y",")",";"," ","e","l","s","e"," ","p","u","t","(","t","r","u","e",")",";"," ","f","i","\n","}">>

\* "top" "two" function f() { } "mid" function g() { "in" } "d" integer x; "s" x = "str"; "t" "u" if (x == 1) "noop" else "n2" fi "end"
Prog_banners ==
    <<"\"","t","o","p","\""," ","\"","t","w","o","\""," ","f","u","n","c","t","i","o","n"," ","f","(",")"," ","{"," ","}"," ","\"","m","i","d","\""," ","f","u","n","c","t","i","o","n"," ","g","(",")"," ","{"," ","\"","i","n","\""," ","}"," ","\"","d","\""," ","i","n","t","e","g","e","r"," ","x",";"," ","\"","s","\""," ","x"," ","="," ","\"","s","t","r","\"",";"," ","\"","t","\""," ","\"","u","\""," ","i","f"," ","(","x"," ","=","="," ","1",")"," ","\"","n","o","o","p","\""," ","e","l","s","e"," ","\"","n","2","\""," ","f","i"," ","\"","e","n","d","\"">>

\* x = 1; )
Prog_stray_paren ==
    <<"x"," ","="," ","1",";"," ",")">>

\* x = 1; }
Prog_stray_brace ==
    <<"x"," ","="," ","1",";"," ","}">>

\* IF (x == 1) x = 1; fi
Prog_upper_if ==
    <<"I","F"," ","(","x"," ","=","="," ","1",")"," ","x"," ","="," ","1",";"," ","f","i">>

\* x = 1; # y = 2;
Prog_unknown ==
    <<"x"," ","="," ","1",";"," ","#"," ","y"," ","="," ","2",";">>

\* int x;
Prog_int ==
    <<"i","n","t"," ","x",";">>

\* { x = 1; 5 }
Prog_compound ==
    <<"{"," ","x"," ","="," ","1",";"," ","5"," ","}">>

\* x = 1\ny = 2;
Prog_line_break ==
    <<"x"," ","="," ","1","\n","y"," ","="," ","2",";">>

\* put(x)\n
Prog_put_newline ==
    <<"p","u","t","(","x",")","\n">>

\* while (a != b) while (a > b) while (a <= b) a = a - 1;
Prog_relops ==
    <<"w","h","i","l","e"," ","(","a"," ","!","="," ","b",")"," ","w","h","i","l","e"," ","(","a"," ",">"," ","b",")"," ","w","h","i","l","e"," ","(","a"," ","<","="," ","b",")"," ","a"," ","="," ","a"," ","-"," ","1",";">>

\* x = 123.;
Prog_trailing_dot ==
    <<"x"," ","="," ","1","2","3",".",";">>

\* boolean b; b = false;
Prog_boolean ==
    <<"b","o","o","l","e","a","n"," ","b",";"," ","b"," ","="," ","f","a","l","s","e",";">>

\* if (x) x = 1; fi
Prog_if_no_relop ==
    <<"i","f"," ","(","x",")"," ","x"," ","="," ","1",";"," ","f","i">>

\* function f(a) { }
Prog_bad_param ==
    <<"f","u","n","c","t","i","o","n"," ","f","(","a",")"," ","{"," ","}">>

\* if (a < b) "s" else "t" "u" fi
Prog_else_string ==
    <<"i","f"," ","(","a"," ","<"," ","b",")"," ","\"","s","\""," ","e","l","s","e"," ","\"","t","\""," ","\"","u","\""," ","f","i">>

Corpus ==
    {Prog_sum,
     Prog_missing_semicolon,
     Prog_function,
     Prog_while,
     Prog_banners,
     Prog_stray_paren,
     Prog_stray_brace,
     Prog_upper_if,
     Prog_unknown,
     Prog_int,
     Prog_compound,
     Prog_line_break,
     Prog_put_newline,
     Prog_relops,
     Prog_trailing_dot,
     Prog_boolean,
     Prog_if_no_relop,
     Prog_bad_param,
     Prog_else_string}

EnabledSets ==
    { {}, DefaultEnabled,
      {"Relop", "Condition", "OptElse", "StatementList", "Rat25F", "OptDeclList",
       "Statement", "Body", "Compound", "IDs"} }

Traces ==
    {[master |-> TRUE, hideEpsilon |-> e, hideOpt |-> o, hideScaffolding |-> s,
      enabled |-> en] : e \in BOOLEAN, o \in BOOLEAN, s \in BOOLEAN, en \in EnabledSets}
    \cup {[TraceConfig EXCEPT !.master = FALSE]}

TraceAll ==
    [master |-> TRUE, hideEpsilon |-> FALSE, hideOpt |-> FALSE,
     hideScaffolding |-> FALSE, enabled |-> {}]

Policies ==
    [echoTokens : BOOLEAN, lenientKeywords : BOOLEAN, allowStringPrimary : BOOLEAN]

----------------------------------------------------------------------------
(* main.cpp: run_one on one input file, with the Parser's procedures run   *)
(* one call at a time.                                                     *)

Init ==
    /\ \/ /\ input \in Corpus
          /\ \/ trace \in Traces /\ policy = MainPolicy
             \/ trace \in {MainTrace, TraceAll} /\ policy \in Policies
       \/ /\ input \in ShortInputs
          /\ trace \in {MainTrace, TraceAll}
          /\ policy = MainPolicy
    /\ lex = <<>>
    /\ tok = NoToken
    /\ stack = <<>>
    /\ out = <<>>
    /\ pc = "start"
    /\ err = <<>>
    /\ rc = 0
    /\ toks = <<>>
    /\ consumed = <<>>
    /\ chosen = <<>>
    /\ NoMain
    /\ streams = Redirected                   \* std::cout.rdbuf(fout.rdbuf()), std::cerr likewise

\* Lexer lex(fin); Parser parser(lex, trace, policy); parser.parse(StartSymbol::Program)
RunOneBegin ==
    /\ pc = "start"
    /\ LET n == nextToken(Lexer(input))         \* Parser::Parser: advance()
       IN  /\ lex' = n.lex
           /\ tok' = n.tok
           /\ toks' = <<n.tok>>
    /\ stack' = <<P("parseRat25F")>>            \* Parser::parse: case Program
    /\ pc' = "parsing"
    /\ UNCHANGED <<input, trace, policy, out, err, rc, consumed, chosen, mainVars>>

\* the effect of one step r of the innermost pending call
Apply(r) ==
    IF r.err # <<>>
    THEN /\ err' = r.err                        \* throw ParseError
         /\ pc' = "thrown"
         /\ UNCHANGED <<input, trace, policy, lex, tok, stack, out, rc, toks, consumed, chosen, mainVars>>
    ELSE /\ out' = out \o r.emit
         /\ chosen' = chosen \o r.chosen
         /\ stack' = r.push \o Tail(stack)
         /\ IF r.adv
            THEN LET n == nextToken(lex)        \* Parser::advance
                 IN  /\ lex' = n.lex
                     /\ tok' = n.tok
                     /\ toks' = Append(toks, n.tok)
                     /\ consumed' = Append(consumed, [tok |-> tok, eat |-> r.eat])
            ELSE UNCHANGED <<lex, tok, toks, consumed>>
         /\ UNCHANGED <<input, trace, policy, pc, err, rc, mainVars>>

\* a grammar procedure chooses its production
Procedure ==
    /\ pc = "parsing"
    /\ stack # <<>>
    /\ Head(stack).k \notin ExpectCalls \cup {"skipBannerStrings"}
    /\ Apply(Run(Head(stack)))

\* expectIdentifier / expectKw / expectOp / expectSep
Expect ==
    /\ pc = "parsing"
    /\ stack # <<>>
    /\ Head(stack).k \in ExpectCalls
    /\ Apply(Run(Head(stack)))

\* skipBannerStrings called from parseRat25F
SkipBanner ==
    /\ pc = "parsing"
    /\ stack # <<>>
    /\ Head(stack).k = "skipBannerStrings"
    /\ Apply(Run(Head(stack)))

\* parse returned: std::cout << "Parsing finished successfully.\n"
Finish ==
    /\ pc = "parsing"
    /\ stack = <<>>
    /\ out' = Append(out, SuccessLine)
    /\ pc' = "done"
    /\ UNCHANGED <<input, trace, policy, lex, tok, stack, err, rc, toks, consumed, chosen, mainVars>>

\* catch (const std::exception& e) { std::cerr << e.what() << "\n"; rc = 1; }
Catch ==
    /\ pc = "thrown"
    /\ out' = Append(out, ErrorLine(err[1]))
    /\ rc' = 1
    /\ pc' = "failed"
    /\ stack' = <<>>                            \* the pending calls were unwound
    /\ UNCHANGED <<input, trace, policy, lex, tok, err, toks, consumed, chosen, mainVars>>

Next == RunOneBegin \/ Procedure \/ Expect \/ SkipBanner \/ Finish \/ Catch

Spec == Init /\ [][Next]_vars

----------------------------------------------------------------------------
(* Properties *)

Last(s) == s[Len(s)]
Lines(kind) == SelectSeq(out, LAMBDA l : l.kind = kind)
IsPrefix(a, b) == Len(a) <= Len(b) /\ SubSeq(b, 1, Len(a)) = a
IsBrace(t) == t.type = "Separator" /\ t.lexeme = <<"}">>

\* number of newlines among the first n characters of s
RECURSIVE Newlines(_, _)
Newlines(s, n) ==
    IF n = 0 THEN 0 ELSE Newlines(s, n - 1) + (IF s[n] = "\n" THEN 1 ELSE 0)

\* number of characters after the last newline among the first n characters of s
RECURSIVE SinceNewline(_, _)
SinceNewline(s, n) ==
    IF n = 0 \/ s[n] = "\n" THEN 0 ELSE SinceNewline(s, n - 1) + 1

\* C1 (as claimed): a run whose input has leftover tokens after the last
\* statement (the lookahead is not end-of-input when the parse is over) ends
\* with exactly one syntax-error line and no success line.
C1_LeftoverTokensEndInAnError ==
    (pc \in {"done", "failed"} /\ tok.type # "EndOfFile")
        => (Len(Lines("error")) = 1 /\ Lines("success") = <<>>)

\* C2 (as claimed): parseStatementList and parseStatementListPrime choose the
\* epsilon production only on a lookahead that is end-of-input or '}'.
C2_ListClosesOnlyAtEndOrBrace ==
    \A i \in 1..Len(chosen) :
        (chosen[i].rule \in {"StatementList", "StatementListPrime"}
         /\ Last(chosen[i].text) = EPS)
            => (chosen[i].on.type = "EndOfFile" \/ IsBrace(chosen[i].on))

LookaheadLine ==
    LET e == IF lex.eof \/ tok.type = "EndOfFile" THEN Len(input) ELSE lex.pos - 2
    IN  1 + Newlines(input, e)

\* C4 (as claimed): a syntax error reports a line >= 1 and a column >= 1, on
\* the source line where the offending token stands.
C4_ErrorPositionIsOneBasedOnTheTokensLine ==
    pc = "thrown" =>
        /\ err[1].line >= 1
        /\ err[1].col >= 1
        /\ err[1].line = LookaheadLine

\* what a failing call says it expected
NamesExpected(msg, call) ==
    CASE call.k = "expectIdentifier" -> msg = <<"identifier expected">>
      [] call.k = "expectKw" -> msg = <<"'">> \o call.s \o <<"' expected">>
      [] call.k = "expectOp" -> msg = <<"operator '">> \o call.s \o <<"' expected">>
      [] call.k = "expectSep" -> msg = <<"separator '">> \o call.s \o <<"' expected">>
      [] call.k = "parseQualifier" -> msg = <<"qualifier (integer|boolean|real) expected">>
      [] call.k = "parseStatement" -> msg = <<"statement expected">>
      [] call.k = "parseRelop" -> msg = <<"relational operator expected">>
      [] call.k = "parsePrimary" -> msg = <<"primary expected">>
      [] OTHER -> FALSE

\* C4 (amended): a syntax error names what the failing call expected, carries
\* the lexeme of the lookahead, and reports the scanner's line and column
\* counters as they stood when that token was returned, that is after all the
\* characters read so far: the line is 1 + the newlines read, the column the
\* number of characters read since the last newline (0 right after a newline).
\* `integer x x = 1;` fails with ';' expected near 'x' at line 1, col 12.
C4_ErrorReportsScannerPosition ==
    /\ pc = "thrown" =>
        LET e == err[1]
            read == lex.pos - 1
        IN  /\ NamesExpected(e.msg, Head(stack))
            /\ e.near = tok.lexeme
            /\ tok = Last(toks)
            /\ e.line = 1 + Newlines(input, read)
            /\ e.col = SinceNewline(input, read)
            /\ e.line >= 1 /\ e.col >= 0
            /\ input = Prog_missing_semicolon =>
                  /\ e.msg = <<"separator '", ";", "' expected">>
                  /\ e.near = <<"x">>
                  /\ e.line = 1 /\ e.col = 12
    /\ pc = "failed" => Last(out) = ErrorLine(err[1])

C4_Witness ==
    /\ pc = "failed"
    /\ Last(out).col = 0
    /\ Last(out).line = 2
    /\ Last(out).lexeme = <<")">>

\* C5: with echo on, the token lines of the output are, in order, the tokens
\* the parser consumed other than the strings it discarded, each with the
\* kind and lexeme the scanner gave it; the consumed tokens are the scanner's
\* tokens in order, all but the current lookahead; only String tokens are
\* discarded; the end-of-input token is neither consumed nor echoed.
C5_EchoIsTheConsumedTerminals ==
    (policy.echoTokens /\ pc # "start") =>
        LET eaten == SelectSeq(consumed, LAMBDA c : c.eat = "echo")
        IN  /\ Lines("token") =
                 [i \in 1..Len(eaten) |-> TokenLine(eaten[i].tok.type, eaten[i].tok.lexeme)]
            /\ Len(toks) = Len(consumed) + 1
            /\ \A i \in 1..Len(consumed) :
                 /\ consumed[i].tok = toks[i]
                 /\ consumed[i].tok.type # "EndOfFile"
                 /\ consumed[i].eat # "echo" => consumed[i].tok.type = "String"
            /\ \A i \in 1..Len(out) : out[i].kind = "token" => out[i].text # <<"EOF">>

C5_Witness ==
    /\ policy.echoTokens
    /\ pc = "done"
    /\ \E i \in 1..Len(consumed) : consumed[i].eat = "banner"
    /\ \E i \in 1..Len(consumed) : consumed[i].eat = "noop"
    /\ \E i \in 1..Len(consumed) : consumed[i].eat = "echo" /\ consumed[i].tok.type = "String"

\* the five conditions under which a chosen production is withheld
Withheld(c) ==
    \/ ~trace.master
    \/ trace.enabled # {} /\ c.rule \notin trace.enabled
    \/ trace.hideEpsilon /\ contains(c.text, EPS)
    \/ trace.hideOpt /\ contains(c.text, "Opt ")
    \/ trace.hideScaffolding
       /\ (contains(c.text, "Rat25F") \/ contains(c.text, "Statement List"))

\* C6 (as claimed): the trace lines of the output are, in order, the chosen
\* productions that are not withheld - the Relop production included.
C6_TraceIsTheChosenProductionsNotWithheld ==
    LET shown == SelectSeq(chosen, LAMBDA c : ~Withheld(c))
    IN  Lines("prod") = [i \in 1..Len(shown) |-> ProdLine(shown[i].text)]

----------------------------------------------------------------------------
(* parseStatement on its own: the Parser about to parse a statement        *)
(* (StartSymbol::Statement), its lookahead any value of the Token type and *)
(* the scanner standing on the text that follows it.                       *)

StmtLookaheads ==
    { Token("Identifier", kw_if, 1, 2),
      Token("Keyword", kw_if, 1, 2),
      Token("Identifier", kw_while, 1, 5),
      Token("Keyword", kw_while, 1, 5),
      Token("Identifier", <<"x">>, 1, 1),
      Token("Operator", <<"=">>, 1, 1),
      Token("String", <<"s">>, 1, 3) }

\* (x == 1) x = 1; fi
Rest_condition == <<"(","x"," ","=","="," ","1",")"," ","x"," ","=", " ","1",";"," ","f","i">>
\* = 1;
Rest_assign == <<" ","=", " ","1",";">>
Rest_empty == <<>>

StmtRests == {Rest_condition, Rest_assign, Rest_empty}

StmtInit ==
    /\ input \in StmtRests
    /\ trace = TraceAll
    /\ policy \in Policies
    /\ tok \in StmtLookaheads
    /\ lex = Lexer(input)
    /\ toks = <<tok>>
    /\ stack = <<P("parseStatement")>>           \* Parser::parse: case Statement
    /\ pc = "parsing"
    /\ out = <<>>
    /\ err = <<>>
    /\ rc = 0
    /\ consumed = <<>>
    /\ chosen = <<>>
    /\ NoMain
    /\ streams = Standard

StmtNext == Procedure \/ Expect \/ Finish \/ Catch

StmtSpec == StmtInit /\ [][StmtNext]_vars

----------------------------------------------------------------------------
(* The shipped pipeline on `integer x; x = 3 + 4; put(x);` *)

HasProd(text) == \E i \in 1..Len(out) : out[i] = ProdLine(text)

SumEcho ==
    << TokenLine("Keyword", kw_integer), TokenLine("Identifier", <<"x">>),
       TokenLine("Separator", <<";">>),
       TokenLine("Identifier", <<"x">>), TokenLine("Operator", <<"=">>),
       TokenLine("Integer", <<"3">>), TokenLine("Operator", <<"+">>),
       TokenLine("Integer", <<"4">>), TokenLine("Separator", <<";">>),
       TokenLine("Keyword", kw_put), TokenLine("Separator", <<"(">>),
       TokenLine("Identifier", <<"x">>), TokenLine("Separator", <<")">>),
       TokenLine("Separator", <<";">>) >>

Shipped == input = Prog_sum /\ trace = MainTrace /\ policy = MainPolicy

\* C8 (as claimed): the shipped pipeline traces DeclarationList, Declaration
\* and IDs, then the StatementList with an Assign and a Print, echoes every
\* terminal in source order and ends with the success line.
C8_SumTracesDeclarationsAndStatements ==
    (Shipped /\ pc \in {"done", "failed"}) =>
        /\ HasProd(<<"<Declaration", "List>", "->", "<Declaration>", ";", "<Declaration", "List", "Prime>">>)
        /\ HasProd(<<"<Declaration>", "->", "<Qualifier>", "<IDs>">>)
        /\ HasProd(<<"<IDs>", "->", "<Identifier>", "<IDs", "Prime>">>)
        /\ HasProd(<<"<Statement", "List>", "->", "<Statement>", "<Statement", "List", "Prime>">>)
        /\ HasProd(<<"<Assign>", "->", "<Identifier>", "=", "<Expression>", ";">>)
        /\ HasProd(<<"<Print>", "->", "put", "(", "<Expression>", ")", ";">>)
        /\ Lines("token") = SumEcho
        /\ Last(out) = SuccessLine

\* C8 (amended): the shipped pipeline writes trace lines for the Statement,
\* Assign and Print rules only (the rules of TraceConfig's allow-set that the
\* input uses), none for DeclarationList, Declaration, IDs or StatementList;
\* it echoes every terminal in source order and ends with the success line.
C8_SumTracesStatementsOnly ==
    (Shipped /\ pc \in {"done", "failed"}) =>
        /\ out = SubSeq(SumEcho, 1, 3)
                 \o << ProdLine(<<"<Statement>", "->", "<Assign>">>),
                       ProdLine(<<"<Assign>", "->", "<Identifier>", "=", "<Expression>", ";">>) >>
                 \o SubSeq(SumEcho, 4, 9)
                 \o << ProdLine(<<"<Statement>", "->", "<Print>">>),
                       ProdLine(<<"<Print>", "->", "put", "(", "<Expression>", ")", ";">>) >>
                 \o SubSeq(SumEcho, 10, 14)
                 \o << SuccessLine >>
        /\ rc = 0

C8_Witness == Shipped /\ pc = "done" /\ Len(out) = 19

----------------------------------------------------------------------------
(* Scanner properties, for the scanner on its own *)

\* what the scanner has not moved past: the current character and the unread ones
Rest(l) == IF l.eof THEN <<>> ELSE SubSeq(l.in, l.pos - 1, Len(l.in))

\* C9: a nextToken call returns one token.  Once the scanner's end-of-input
\* flag is set, a call returns an EndOfFile token with an empty lexeme and
\* leaves the line and column counters as they were; a call made when only
\* white space is left returns an EndOfFile token with an empty lexeme too.
C9_EndOfInputIsSticky ==
    [][ pc = "scan" =>
          /\ Len(toks') = Len(toks) + 1
          /\ lex.eof =>
                /\ Last(toks') = Token("EndOfFile", <<>>, lex.line, lex.col)
                /\ lex'.eof /\ lex'.line = lex.line /\ lex'.col = lex.col
          /\ (\A i \in 1..Len(Rest(lex)) : isspace(Rest(lex)[i])) =>
                /\ Last(toks').type = "EndOfFile"
                /\ Last(toks').lexeme = <<>>
      ]_vars

C9_Witness ==
    /\ pc = "scan"
    /\ Len(toks) >= 3
    /\ toks[Len(toks) - 2].type = "EndOfFile"
    /\ toks[Len(toks) - 2].line = 2
    /\ Last(toks).type = "EndOfFile"

\* the index of the first character at or after i that is not white space
RECURSIVE FirstNonSpace(_, _)
FirstNonSpace(s, i) ==
    IF i <= Len(s) /\ s[i] \in Spaces THEN FirstNonSpace(s, i + 1) ELSE i

\* the index of the last digit of the longest run of digits starting at i (i - 1 if none)
RECURSIVE DigitRunEnd(_, _)
DigitRunEnd(s, i) ==
    IF i <= Len(s) /\ s[i] \in Digits THEN DigitRunEnd(s, i + 1) ELSE i - 1

IsDigitAt(s, i) == i <= Len(s) /\ s[i] \in Digits

\* C10: a call that finds a digit returns the longest run of digits as an
\* Integer, leaving the character after it (a '.', say) as the current one,
\* unless the run is followed by '.' and a digit: then it returns digits '.'
\* digits as one Real.  A call that finds a '.' returns a Real '.' digits when a
\* digit follows and the one-character Unknown '.' otherwise.  So `123.` gives
\* Integer 123, Unknown '.', and `.5` gives Real .5.
C10_NumberScanning ==
    [][ (pc = "scan" /\ ~lex.eof) =>
          LET st == FirstNonSpace(input, lex.pos - 1)
              e1 == DigitRunEnd(input, st)
              e2 == DigitRunEnd(input, e1 + 2)
              f  == DigitRunEnd(input, st + 1)
              t  == Last(toks')
          IN  /\ IsDigitAt(input, st) =>
                    IF e1 < Len(input) /\ input[e1 + 1] = "." /\ IsDigitAt(input, e1 + 2)
                    THEN /\ t.type = "Real"
                         /\ t.lexeme = SubSeq(input, st, e2)
                         /\ Rest(lex') = SubSeq(input, e2 + 1, Len(input))
                    ELSE /\ t.type = "Integer"
                         /\ t.lexeme = SubSeq(input, st, e1)
                         /\ Rest(lex') = SubSeq(input, e1 + 1, Len(input))
              /\ (st <= Len(input) /\ input[st] = ".") =>
                    IF IsDigitAt(input, st + 1)
                    THEN /\ t.type = "Real"
                         /\ t.lexeme = SubSeq(input, st, f)
                         /\ Rest(lex') = SubSeq(input, f + 1, Len(input))
                    ELSE /\ t.type = "Unknown"
                         /\ t.lexeme = <<".">>
                         /\ Rest(lex') = SubSeq(input, st + 1, Len(input))
              /\ (input = <<"1", "2", "3", ".">> /\ Len(toks') = 2) =>
                    /\ toks'[1].type = "Integer" /\ toks'[1].lexeme = <<"1", "2", "3">>
                    /\ toks'[2].type = "Unknown" /\ toks'[2].lexeme = <<".">>
              /\ (input = <<".", "5">> /\ Len(toks') = 1) =>
                    /\ toks'[1].type = "Real" /\ toks'[1].lexeme = <<".", "5">>
      ]_vars

C10_Witness ==
    /\ input = <<"1", "2", ".", "5", "0", ".">>
    /\ Len(toks) = 3
    /\ toks[1].type = "Real" /\ toks[1].lexeme = <<"1", "2", ".", "5", "0">>
    /\ toks[2].type = "Unknown" /\ toks[2].lexeme = <<".">>
    /\ toks[3].type = "EndOfFile"

\* C11: a call that finds an opening quote with no quote after it returns one
\* String token whose lexeme is every character after the opening quote up to
\* the end of the input, and leaves the scanner at end of input; the call
\* after a String token that ended the input returns EndOfFile.
C11_UnterminatedStringRunsToEndOfInput ==
    [][ pc = "scan" =>
          LET st == FirstNonSpace(input, lex.pos - 1)
              t  == Last(toks')
          IN  /\ ( /\ ~lex.eof
                   /\ st <= Len(input)
                   /\ input[st] = "\""
                   /\ \A j \in (st + 1)..Len(input) : input[j] # "\"" ) =>
                    /\ Len(toks') = Len(toks) + 1
                    /\ t.type = "String"
                    /\ t.lexeme = SubSeq(input, st + 1, Len(input))
                    /\ lex'.eof
              /\ (toks # <<>> /\ Last(toks).type = "String" /\ lex.eof) =>
                    /\ t.type = "EndOfFile"
                    /\ t.lexeme = <<>>
      ]_vars

C11_Witness ==
    /\ input = <<"\"", "a", " ", "b">>
    /\ Len(toks) = 2
    /\ toks[1].type = "String" /\ toks[1].lexeme = <<"a", " ", "b">>
    /\ toks[2].type = "EndOfFile"

----------------------------------------------------------------------------
(* The scanner on words: every letter-case of every keyword the scanner or *)
(* the parser knows, and words that differ from a keyword by a character.  *)

LetterCases(c) ==
    IF isLetter(c) THEN {u \in Upper \cup Lower : tolower(u) = tolower(c)} ELSE {c}

RECURSIVE Spellings(_)
Spellings(w) ==
    IF w = <<>> THEN {<<>>}
    ELSE {<<c>> \o r : c \in LetterCases(Head(w)), r \in Spellings(Tail(w))}

ParserOnlyWords == {kw_function, kw_boolean, kw_true, kw_false}

NearWords ==
    { <<"i">>, <<"i","f","f">>, <<"i","f","1">>, <<"I","f","$">>, <<"f","i","_">>,
      <<"i","n","t","e","g","e","r","s">>, <<"i","n","t","e","g","e">>,
      <<"p","u","t","s">>, <<"G","e","t","2">>, <<"x","$","_","9">>,
      <<"w","h","i","l","e","(","x",")">>, <<" ","I","F"," ","f","i","x","\n","E","l","s","e">>,
      <<"i","f",".","5">>, <<"r","e","a","l","=","R","E","A","L","1">>,
      <<"_","i","f">>, <<"$","i","n","t">>, <<"1","i","f">> }

Words ==
    UNION {Spellings(k) : k \in KeywordTable \cup ParserOnlyWords} \cup NearWords

WordInit ==
    /\ input \in Words
    /\ lex = <<>>
    /\ toks = <<>>
    /\ pc = "new"
    /\ Idle

WordSpec == WordInit /\ [][LexNext]_vars

\* the index of the last character of the longest run of word characters starting at i
RECURSIVE WordEnd(_, _)
WordEnd(s, i) ==
    IF i <= Len(s) /\ (s[i] \in Upper \cup Lower \cup Digits \cup {"$", "_"})
    THEN WordEnd(s, i + 1) ELSE i - 1

Lowered(s) == [i \in 1..Len(s) |-> tolower(s[i])]

\* C12: a call that finds a letter returns the longest run of letters, digits,
\* '$' and '_' from there as one token, spelled as in the input; the token is
\* a Keyword exactly when the lower-cased spelling is one of integer, int,
\* real, if, else, fi, while, return, get, put, and an Identifier otherwise.
C12_WordIsKeywordIffLowerCasedSpellingIsInTheSet ==
    [][ (pc = "scan" /\ ~lex.eof) =>
          LET st == FirstNonSpace(input, lex.pos - 1)
              e  == WordEnd(input, st)
              t  == Last(toks')
          IN  (st <= Len(input) /\ input[st] \in Upper \cup Lower) =>
                /\ t.lexeme = SubSeq(input, st, e)
                /\ t.type \in {"Keyword", "Identifier"}
                /\ t.type = "Keyword" <=>
                      Lowered(SubSeq(input, st, e)) \in
                          {kw_integer, kw_int, kw_real, kw_if, kw_else, kw_fi,
                           kw_while, kw_return, kw_get, kw_put}
                /\ Rest(lex') = SubSeq(input, e + 1, Len(input))
      ]_vars

C12_Witness ==
    /\ input = <<" ","I","F"," ","f","i","x","\n","E","l","s","e">>
    /\ Len(toks) = 3
    /\ toks[1].type = "Keyword" /\ toks[1].lexeme = <<"I","F">>
    /\ toks[2].type = "Identifier" /\ toks[2].lexeme = <<"f","i","x">>
    /\ toks[3].type = "Keyword" /\ toks[3].lexeme = <<"E","l","s","e">>

----------------------------------------------------------------------------
(* The echo fed back to the scanner *)

\* the kinds and lexemes of the tokens a scanner in state l returns up to end of input
RECURSIVE ScanAll(_)
ScanAll(l) ==
    LET r == nextToken(l)
    IN  IF r.tok.type = "EndOfFile" THEN <<>>
        ELSE <<[type |-> r.tok.type, lexeme |-> r.tok.lexeme]>> \o ScanAll(r.lex)

Relex(s) == ScanAll(Lexer(s))

\* the tokens the parser echoed, as the scanner returned them
Echoed ==
    LET e == SelectSeq(consumed, LAMBDA c : c.eat = "echo")
    IN  [i \in 1..Len(e) |-> [type |-> e[i].tok.type, lexeme |-> e[i].tok.lexeme]]

RECURSIVE Joined(_)
Joined(ls) ==
    IF ls = <<>> THEN <<>> ELSE Head(ls) \o <<" ">> \o Joined(Tail(ls))

Quoted(s) == <<"\"">> \o s \o <<"\"">>

\* C13 as stated: every echoed lexeme, scanned again on its own, is the one
\* token the scanner returned for it, kind and lexeme, String tokens included;
\* and so the echoed lexemes scanned in order are the echoed tokens.
C13_EchoedLexemesRelexToTheSameTokens ==
    policy.echoTokens =>
        LET ls == Lines("token")
        IN  /\ Len(ls) = Len(Echoed)
            /\ \A i \in 1..Len(ls) : Relex(ls[i].lexeme) = <<Echoed[i]>>
            /\ Relex(Joined([i \in 1..Len(ls) |-> ls[i].lexeme])) = Echoed

\* C13: every echoed lexeme of a token other than a String, scanned again on
\* its own, is the one token the scanner returned for it, kind and lexeme.  An
\* echoed String is written without its quotes: scanned again as written it
\* never gives the String token back, and it does between quotes.  The echoed
\* lexemes scanned in order, the String ones between quotes, are the echoed
\* tokens.
C13_EchoedLexemesRelexToTheSameTokensButStrings ==
    policy.echoTokens =>
        LET ls == Lines("token")
            q(i) == IF Echoed[i].type = "String" THEN Quoted(ls[i].lexeme) ELSE ls[i].lexeme
        IN  /\ Len(ls) = Len(Echoed)
            /\ \A i \in 1..Len(ls) :
                 IF Echoed[i].type = "String"
                 THEN /\ Relex(ls[i].lexeme) # <<Echoed[i]>>
                      /\ Relex(Quoted(ls[i].lexeme)) = <<Echoed[i]>>
                 ELSE Relex(ls[i].lexeme) = <<Echoed[i]>>
            /\ Relex(Joined([i \in 1..Len(ls) |-> q(i)])) = Echoed

C13_Witness ==
    /\ policy.echoTokens
    /\ pc = "done"
    /\ \E i \in 1..Len(Echoed) : Echoed[i].type = "String" /\ Len(Echoed[i].lexeme) >= 1
    /\ \E i \in 1..Len(Echoed) : Echoed[i].type = "Keyword"
    /\ \E i \in 1..Len(Echoed) : Echoed[i].type = "Integer"
    /\ Len(Lines("token")) = Len(Echoed)

----------------------------------------------------------------------------
(* Strings outside expressions *)

\* the calls that drop a run of strings: before the program, before and
\* between function definitions, at the start and continuation of a list
StringDroppers ==
    {"skipBannerStrings", "parseOptFunctionDefinitions", "parseFunctionDefinitionsPrime",
     "parseStatementList", "parseStatementListPrime"}

TokenLinesOf(o) == SelectSeq(o, LAMBDA l : l.kind = "token")

\* C14: a step taken on a String lookahead by a call that drops strings, or
\* by parseStatement, throws nothing and adds no token line; the string is
\* moved past unechoed.  A call that drops strings writes no line, chooses no
\* production and stays pending, so it drops the whole run.  parseStatement
\* moves past that one string and returns, and the only line it can write is
\* '<Statement> -> eps'.
C14_StringsOutsideExpressionsAreDropped ==
    [][ ( /\ pc = "parsing"
          /\ stack # <<>>
          /\ tok.type = "String"
          /\ Head(stack).k \in StringDroppers \cup {"parseStatement"} ) =>
          /\ pc' = "parsing"
          /\ err' = <<>>
          /\ TokenLinesOf(out') = TokenLinesOf(out)
          /\ Len(consumed') = Len(consumed) + 1
          /\ Last(consumed').tok = tok
          /\ Last(consumed').eat # "echo"
          /\ Head(stack).k \in StringDroppers =>
                /\ out' = out
                /\ chosen' = chosen
                /\ stack' = stack
          /\ Head(stack).k = "parseStatement" =>
                /\ stack' = Tail(stack)
                /\ \/ out' = out
                   \/ out' = Append(out, ProdLine(<<"<Statement>", "->", EPS>>))
      ]_vars

C14_Witness ==
    /\ input = Prog_banners
    /\ trace = TraceAll
    /\ pc = "done"
    /\ \E i \in 1..(Len(consumed) - 1) :
          consumed[i].eat = "banner" /\ consumed[i + 1].eat = "banner"
    /\ Len(SelectSeq(consumed, LAMBDA c : c.eat = "noop")) = 2
    /\ Len(SelectSeq(out, LAMBDA l : l = ProdLine(<<"<Statement>", "->", EPS>>))) = 2
    /\ Len(SelectSeq(out, LAMBDA l : l.kind = "token" /\ l.text = <<"String">>)) = 1

----------------------------------------------------------------------------
(* main.cpp: main going through its input/output pairs.  A pair is what is *)
(* on disk for it: whether the input opens, whether the output can be      *)
(* created, and the input's text.                                          *)

MaxJobs == 3      \* pairs on the command line

Job(inOk, outOk, text) == [inOk |-> inOk, outOk |-> outOk, text |-> text]

JobSet ==
    { Job(FALSE, TRUE, <<>>),
      Job(TRUE, FALSE, Prog_sum),
      Job(TRUE, TRUE, Prog_sum),
      Job(TRUE, TRUE, Prog_missing_semicolon),
      Job(TRUE, TRUE, Prog_put_newline) }

\* tests/test0..3.rat25f, whatever they hold when main is run with no argument
TestFiles ==
    { Job(FALSE, TRUE, <<>>),
      Job(TRUE, TRUE, Prog_stray_paren),
      Job(TRUE, TRUE, Prog_put_newline) }

NoFile == [written |-> FALSE, lines |-> <<>>]
Note(text, k) == [text |-> text, pair |-> k]

\* rc |= run_one(...), on the values 0 and 1 run_one returns
BitOr(a, b) == IF a = 1 \/ b = 1 THEN 1 ELSE 0

MainInit ==
    /\ argc \in 1..(2 * MaxJobs + 2)
    /\ jobs \in IF argc = 1 THEN [1..4 -> TestFiles]
                ELSE [1..((argc - 1) \div 2) -> JobSet]
    /\ argi = 0
    /\ exit = 0
    /\ streams = Standard
    /\ console = <<>>
    /\ files = <<>>
    /\ input = <<>>
    /\ trace = <<>>
    /\ policy = <<>>
    /\ lex = <<>>
    /\ tok = NoToken
    /\ stack = <<>>
    /\ out = <<>>
    /\ pc = "main"
    /\ err = <<>>
    /\ rc = 0
    /\ toks = <<>>
    /\ consumed = <<>>
    /\ chosen = <<>>

\* main up to its loop: the trace and policy knobs, then the argument count
MainBegin ==
    /\ pc = "main"
    /\ trace' = MainTrace
    /\ policy' = MainPolicy
    /\ IF argc # 1 /\ (argc < 3 \/ argc % 2 = 0)
       THEN /\ console' = console \o <<Note("Usage:", 0), Note("Or run with no args", 0)>>
            /\ exit' = 1
            /\ pc' = "exited"
            /\ UNCHANGED argi
       ELSE /\ argi' = 1
            /\ exit' = 0
            /\ pc' = "loop"
            /\ UNCHANGED console
    /\ UNCHANGED <<input, lex, tok, stack, out, err, rc, toks, consumed, chosen,
                   argc, jobs, streams, files>>

\* the loop test: the range-for over the four test pairs, or i + 1 < argc
MoreJobs ==
    IF argc = 1 THEN (argi + 1) \div 2 <= Len(jobs) ELSE argi + 1 < argc

\* main calls run_one for the next pair; run_one opens the two files and,
\* if both open, redirects std::cout and std::cerr to the output file
RunOneOpen ==
    /\ pc = "loop"
    /\ MoreJobs
    /\ LET k == (argi + 1) \div 2
           jb == jobs[k]
           banner == IF argc = 1 THEN <<Note("==>", k)>> ELSE <<>>
       IN  IF ~jb.inOk \/ ~jb.outOk
           THEN /\ console' = console \o banner \o
                       <<Note(IF ~jb.inOk THEN "Error: cannot open input file: "
                              ELSE "Error: cannot open output file: ", k)>>
                /\ exit' = BitOr(exit, 1)               \* return 1; rc |= ...
                /\ argi' = argi + 2
                /\ files' = Append(files, NoFile)
                /\ UNCHANGED <<input, lex, tok, stack, out, pc, err, rc, toks, consumed,
                               chosen, streams>>
           ELSE /\ console' = console \o banner
                /\ streams' = [cout |-> "file", cerr |-> "file",
                               coutBuf |-> streams.cout, cerrBuf |-> streams.cerr]
                /\ input' = jb.text
                /\ out' = <<>>                          \* std::ofstream fout(outPath)
                /\ rc' = 0                              \* int rc = 0
                /\ lex' = <<>>
                /\ tok' = NoToken
                /\ stack' = <<>>
                /\ err' = <<>>
                /\ toks' = <<>>
                /\ consumed' = <<>>
                /\ chosen' = <<>>
                /\ pc' = "start"
                /\ UNCHANGED <<exit, argi, files>>
    /\ UNCHANGED <<trace, policy, argc, jobs>>

\* the exit status taken from the last pair alone
RunOneReturn_LastWins ==
    /\ pc \in {"done", "failed"}
    /\ streams' = [streams EXCEPT !.cout = streams.coutBuf, !.cerr = streams.cerrBuf]
    /\ exit' = rc
    /\ files' = Append(files, [written |-> TRUE, lines |-> out])
    /\ argi' = argi + 2
    /\ pc' = "loop"
    /\ UNCHANGED <<input, trace, policy, lex, tok, stack, out, err, rc, toks, consumed,
                   chosen, argc, jobs, console>>

\* run_one restores the two streams and returns rc; main: rc |= ..., i += 2
RunOneReturn ==
    /\ pc \in {"done", "failed"}
    /\ streams' = [streams EXCEPT !.cout = streams.coutBuf, !.cerr = streams.cerrBuf]
    /\ exit' = BitOr(exit, rc)
    /\ files' = Append(files, [written |-> TRUE, lines |-> out])
    /\ argi' = argi + 2
    /\ pc' = "loop"
    /\ UNCHANGED <<input, trace, policy, lex, tok, stack, out, err, rc, toks, consumed,
                   chosen, argc, jobs, console>>

\* return rc
MainReturn ==
    /\ pc = "loop"
    /\ ~MoreJobs
    /\ pc' = "exited"
    /\ UNCHANGED <<input, trace, policy, lex, tok, stack, out, err, rc, toks, consumed,
                   chosen, mainVars>>

MainNext ==
    \/ MainBegin \/ RunOneOpen \/ RunOneBegin \/ Procedure \/ Expect \/ SkipBanner
    \/ Finish \/ Catch \/ RunOneReturn \/ MainReturn

MainSpec == MainInit /\ [][MainNext]_vars

\* the command line names whole pairs (or nothing), so main enters its loop
ValidArgs == argc = 1 \/ (argc >= 3 /\ argc % 2 = 1)

\* pair k could not be opened, or its output file ends with a syntax error
PairFailed(k) ==
    \/ ~jobs[k].inOk
    \/ ~jobs[k].outOk
    \/ files[k].lines # <<>> /\ Last(files[k].lines).kind = "error"

InRunOne == pc \in {"start", "parsing", "thrown", "done", "failed"}

\* C15: main leaves one output record per pair, in order, whatever became
\* of the earlier pairs: the pairs before argv[i] while it loops, all of them
\* when it returns.  A pair's output file is written exactly when both its
\* files open, a parse starts from an empty output file with no error in
\* flight and a zero return code, and equal pairs leave equal output files
\* wherever they stand in the run; the file of a pair is that of its input
\* (success for the sum program, one error line for the missing semicolon).
\* Outside run_one std::cout and std::cerr are the process's own streams,
\* inside they are the output file.  main's exit status is 0 or 1, and it is
\* non-zero exactly when some pair failed.
C15_PairsAreProcessedIndependently ==
    (argc # 0 /\ pc # "main" /\ ValidArgs) =>
        /\ Len(files) <= Len(jobs)
        /\ pc = "loop" => argi = 2 * Len(files) + 1
        /\ InRunOne => /\ argi = 2 * Len(files) + 1
                       /\ input = jobs[Len(files) + 1].text
        /\ pc = "exited" => Len(files) = Len(jobs)
        /\ \A k \in 1..Len(files) :
              /\ files[k].written <=> (jobs[k].inOk /\ jobs[k].outOk)
              /\ files[k].written => files[k].lines # <<>>
              /\ (files[k].written /\ jobs[k].text = Prog_sum) =>
                    /\ Len(files[k].lines) = 19
                    /\ Last(files[k].lines) = SuccessLine
              /\ (files[k].written /\ jobs[k].text = Prog_missing_semicolon) =>
                    /\ Last(files[k].lines).kind = "error"
                    /\ Last(files[k].lines).text = <<"separator '", ";", "' expected">>
              /\ \A l \in 1..Len(files) : jobs[k] = jobs[l] => files[k] = files[l]
        /\ pc = "start" => /\ out = <<>> /\ err = <<>> /\ rc = 0
                           /\ consumed = <<>> /\ chosen = <<>>
        /\ pc \in {"loop", "exited"} => streams.cout = "stdout" /\ streams.cerr = "stderr"
        /\ InRunOne => streams.cout = "file" /\ streams.cerr = "file"
        /\ exit \in {0, 1}
        /\ pc \in {"loop", "exited"} =>
              (exit # 0 <=> \E k \in 1..Len(files) : PairFailed(k))

C15_Witness ==
    /\ pc = "exited"
    /\ argc = 7
    /\ ~jobs[1].inOk
    /\ jobs[2] = Job(TRUE, TRUE, Prog_missing_semicolon)
    /\ jobs[3] = Job(TRUE, TRUE, Prog_sum)
    /\ Len(files) = 3
    /\ ~files[1].written
    /\ Last(files[2].lines).kind = "error"
    /\ Last(files[3].lines) = SuccessLine
    /\ exit = 1
    /\ streams.cout = "stdout"

----------------------------------------------------------------------------
(* The keyword terminals, as the scanner returns them and the parser tests *)

\* the keywords the grammar procedures test for with isKw / expectKw
ParserKeywords ==
    {kw_function, kw_integer, kw_boolean, kw_real, kw_if, kw_else, kw_fi,
     kw_while, kw_return, kw_put, kw_get}

\* the lookahead is the scanner's token for a spelling of k: any letter-case
\* of k for a word of the scanner's keyword set, k itself for the others
SpellingOf(k) ==
    IF k \in KeywordTable
    THEN tok.type = "Keyword" /\ Lowered(tok.lexeme) = k
    ELSE tok.type = "Identifier" /\ tok.lexeme = k

\* C16: whenever the parser's lookahead is the scanner's token for a spelling
\* of a keyword k the parser tests for, isKw(k) holds, under either setting of
\* lenientKeywords.
C16_ScannerAndParserAgreeOnKeywords ==
    pc = "parsing" =>
        \A k \in ParserKeywords : SpellingOf(k) => isKw(k)

====
